---------------------------- MODULE Spec2Model ----------------------------
(***************************************************************************)
(* The date/time text codec of src/types/time.rs: ToSql / FromSql for      *)
(* OffsetDateTime, PrimitiveDateTime, Date and Time.                       *)
(*                                                                         *)
(* A text is a sequence of one-character strings.  A format description is *)
(* a sequence of items: a component name ("year", "subsecond", ...) or a   *)
(* one-character literal.  Format and the Parse operators interpret a      *)
(* format description the way the `time` crate's formatter and parser do   *)
(* for the components and modifiers this file uses (zero padded fixed      *)
(* width numbers, [subsecond] with one-or-more digits, a mandatory sign on *)
(* the offset hour).  Years stay within 0000..9999.                        *)
(***************************************************************************)
EXTENDS Integers, Sequences, FiniteSets, TLC

VARIABLES cell, param, res

vars == <<cell, param, res>>

-----------------------------------------------------------------------------
(* Characters and numbers *)

Digits == <<"0", "1", "2", "3", "4", "5", "6", "7", "8", "9">>

IsDigit(c) == \E i \in 1..10 : Digits[i] = c

DigitVal(c) == (CHOOSE i \in 1..10 : Digits[i] = c) - 1

DigitChar(n) == Digits[n + 1]

RECURSIVE Pow10(_)
Pow10(k) == IF k = 0 THEN 1 ELSE 10 * Pow10(k - 1)

Abs(n) == IF n < 0 THEN -n ELSE n

\* A number zero-padded to exactly w digits.
Pad(n, w) == [i \in 1..w |-> DigitChar((n \div Pow10(w - i)) % 10)]

Prefix(s, n) == SubSeq(s, 1, n)

-----------------------------------------------------------------------------
(* The format descriptions, lines 8-44 *)

Components ==
    {"year", "month", "day", "hour", "minute", "second", "subsecond",
     "offset_hour sign:mandatory", "offset_minute"}

YMD == <<"year", "-", "month", "-", "day">>

HMS == <<"hour", ":", "minute", ":", "second">>

OFFSET_HM == <<"offset_hour sign:mandatory", ":", "offset_minute">>

PRIMITIVE_DATE_TIME_FORMAT == YMD \o <<" ">> \o HMS

PRIMITIVE_DATE_TIME_FORMAT_Z == YMD \o <<" ">> \o HMS \o <<"Z">>

PRIMITIVE_DATE_TIME_FORMAT_SUBSECONDS ==
    YMD \o <<" ">> \o HMS \o <<".", "subsecond">>

PRIMITIVE_DATE_TIME_FORMAT_SUBSECONDS_Z ==
    YMD \o <<" ">> \o HMS \o <<".", "subsecond", "Z">>

PRIMITIVE_DATE_TIME_FORMAT_T == YMD \o <<"T">> \o HMS

PRIMITIVE_DATE_TIME_FORMAT_T_Z == YMD \o <<"T">> \o HMS \o <<"Z">>

PRIMITIVE_DATE_TIME_FORMAT_T_SUBSECONDS ==
    YMD \o <<"T">> \o HMS \o <<".", "subsecond">>

PRIMITIVE_DATE_TIME_FORMAT_T_SUBSECONDS_Z ==
    YMD \o <<"T">> \o HMS \o <<".", "subsecond", "Z">>

OFFSET_DATE_TIME_FORMAT == YMD \o <<" ">> \o HMS \o OFFSET_HM

OFFSET_DATE_TIME_FORMAT_SUBSECONDS ==
    YMD \o <<" ">> \o HMS \o <<".", "subsecond">> \o OFFSET_HM

OFFSET_DATE_TIME_FORMAT_T == YMD \o <<"T">> \o HMS \o OFFSET_HM

OFFSET_DATE_TIME_FORMAT_T_SUBSECONDS ==
    YMD \o <<"T">> \o HMS \o <<".", "subsecond">> \o OFFSET_HM

LEGACY_DATE_TIME_FORMAT ==
    YMD \o <<" ">> \o HMS \o <<":", "subsecond", " ">> \o OFFSET_HM

DATE_FORMAT == YMD

TIME_FORMAT == <<"hour", ":", "minute">>

TIME_FORMAT_SECONDS == HMS

TIME_FORMAT_SECONDS_SUBSECONDS == HMS \o <<".", "subsecond">>

\* No format selected (the Err arm of a match on the length and markers).
NoFormat == <<>>

-----------------------------------------------------------------------------
(* Values *)

NoValue == [none |-> TRUE]

MkDate(y, m, d) == [year |-> y, month |-> m, day |-> d]

MkTime(h, mi, s, n) == [hour |-> h, minute |-> mi, second |-> s, nanosecond |-> n]

MkPrimitiveDateTime(d, t) ==
    [year |-> d.year, month |-> d.month, day |-> d.day,
     hour |-> t.hour, minute |-> t.minute, second |-> t.second,
     nanosecond |-> t.nanosecond]

\* The offset's hours and minutes carry the same sign.
MkOffsetDateTime(p, oh, om) ==
    [year |-> p.year, month |-> p.month, day |-> p.day,
     hour |-> p.hour, minute |-> p.minute, second |-> p.second,
     nanosecond |-> p.nanosecond, offset_hours |-> oh, offset_minutes |-> om]

\* PrimitiveDateTime::assume_utc
AssumeUtc(p) == MkOffsetDateTime(p, 0, 0)

IsLeapYear(y) == (y % 4 = 0) /\ ((y % 100 # 0) \/ (y % 400 = 0))

DaysInMonth(y, m) ==
    IF m = 2 THEN (IF IsLeapYear(y) THEN 29 ELSE 28)
    ELSE IF m \in {4, 6, 9, 11} THEN 30 ELSE 31

\* Days since 1970-01-01 of a calendar date (proleptic Gregorian).
DaysFromCivil(y, m, d) ==
    LET yy == IF m <= 2 THEN y - 1 ELSE y
        era == yy \div 400
        yoe == yy - era * 400
        mp == IF m > 2 THEN m - 3 ELSE m + 9
        doy == ((153 * mp + 2) \div 5) + d - 1
        doe == yoe * 365 + (yoe \div 4) - (yoe \div 100) + doy
    IN era * 146097 + doe - 719468

\* The absolute instant of an OffsetDateTime: <<day, second of day, ns>> in UTC.
Instant(v) ==
    LET local == v.hour * 3600 + v.minute * 60 + v.second
        utc == local - (v.offset_hours * 3600 + v.offset_minutes * 60)
    IN <<DaysFromCivil(v.year, v.month, v.day) + (utc \div 86400),
         utc % 86400, v.nanosecond>>

\* OffsetDateTime's == compares instants, not the offsets they are written in.
EqOffsetDateTime(a, b) == Instant(a) = Instant(b)

-----------------------------------------------------------------------------
(* Formatting a value under a format description *)

\* [subsecond] with the default digits:one_or_more: the nanoseconds with the
\* trailing zeros dropped, at least one digit.
RECURSIVE SubsecondWidth(_, _)
SubsecondWidth(n, w) ==
    IF w > 1 /\ (n \div Pow10(9 - w)) % 10 = 0 THEN SubsecondWidth(n, w - 1) ELSE w

FormatSubsecond(n) ==
    LET w == SubsecondWidth(n, 9) IN Pad(n \div Pow10(9 - w), w)

OffsetIsNegative(v) == v.offset_hours < 0 \/ v.offset_minutes < 0

FormatComponent(c, v) ==
    CASE c = "year" -> Pad(v.year, 4)
      [] c = "month" -> Pad(v.month, 2)
      [] c = "day" -> Pad(v.day, 2)
      [] c = "hour" -> Pad(v.hour, 2)
      [] c = "minute" -> Pad(v.minute, 2)
      [] c = "second" -> Pad(v.second, 2)
      [] c = "subsecond" -> FormatSubsecond(v.nanosecond)
      [] c = "offset_hour sign:mandatory" ->
            <<IF OffsetIsNegative(v) THEN "-" ELSE "+">> \o Pad(Abs(v.offset_hours), 2)
      [] c = "offset_minute" -> Pad(Abs(v.offset_minutes), 2)

\* value.format(fmt)
RECURSIVE Format(_, _)
Format(v, fmt) ==
    IF fmt = <<>> THEN <<>>
    ELSE (IF Head(fmt) \in Components
          THEN FormatComponent(Head(fmt), v)
          ELSE <<Head(fmt)>>) \o Format(v, Tail(fmt))

-----------------------------------------------------------------------------
(* Parsing a text under a format description *)

\* What the parser has collected; -1 (0 for the sign) is "not parsed".
NothingParsed ==
    [year |-> -1, month |-> -1, day |-> -1, hour |-> -1, minute |-> -1,
     second |-> -1, subsecond |-> -1, offset_sign |-> 0, offset_hour |-> -1,
     offset_minute |-> -1]

ParseFailed == [ok |-> FALSE, pos |-> 0, acc |-> NothingParsed]

\* Exactly n digits at pos.
HasDigits(s, pos, n) ==
    /\ pos + n - 1 <= Len(s)
    /\ \A i \in pos..(pos + n - 1) : IsDigit(s[i])

RECURSIVE NumberAt(_, _, _)
NumberAt(s, pos, n) ==
    IF n = 0 THEN 0
    ELSE NumberAt(s, pos, n - 1) * 10 + DigitVal(s[pos + n - 1])

\* The run of digits starting at pos.
RECURSIVE DigitRun(_, _)
DigitRun(s, pos) ==
    IF pos <= Len(s) /\ IsDigit(s[pos]) THEN 1 + DigitRun(s, pos + 1) ELSE 0

\* One or more digits read as a fraction of a second, in nanoseconds; digits
\* past the ninth are consumed and do not count.
RECURSIVE SubsecondAt(_, _, _)
SubsecondAt(s, pos, k) ==
    IF k = 0 THEN 0
    ELSE SubsecondAt(s, pos, k - 1)
         + (IF k <= 9 THEN DigitVal(s[pos + k - 1]) * Pow10(9 - k) ELSE 0)

Fixed(s, pos, acc, field, n) ==
    IF HasDigits(s, pos, n)
    THEN [ok |-> TRUE, pos |-> pos + n,
          acc |-> [acc EXCEPT ![field] = NumberAt(s, pos, n)]]
    ELSE ParseFailed

ParseComponent(c, s, pos, acc) ==
    CASE c = "year" -> Fixed(s, pos, acc, "year", 4)
      [] c = "month" -> Fixed(s, pos, acc, "month", 2)
      [] c = "day" -> Fixed(s, pos, acc, "day", 2)
      [] c = "hour" -> Fixed(s, pos, acc, "hour", 2)
      [] c = "minute" -> Fixed(s, pos, acc, "minute", 2)
      [] c = "second" -> Fixed(s, pos, acc, "second", 2)
      [] c = "subsecond" ->
            LET k == DigitRun(s, pos) IN
            IF k >= 1
            THEN [ok |-> TRUE, pos |-> pos + k,
                  acc |-> [acc EXCEPT !.subsecond = SubsecondAt(s, pos, k)]]
            ELSE ParseFailed
      [] c = "offset_hour sign:mandatory" ->
            IF pos <= Len(s) /\ s[pos] \in {"+", "-"} /\ HasDigits(s, pos + 1, 2)
            THEN [ok |-> TRUE, pos |-> pos + 3,
                  acc |-> [acc EXCEPT !.offset_sign = IF s[pos] = "-" THEN -1 ELSE 1,
                                      !.offset_hour = NumberAt(s, pos + 1, 2)]]
            ELSE ParseFailed
      [] c = "offset_minute" -> Fixed(s, pos, acc, "offset_minute", 2)

\* The items from the i-th on, against the text from pos on; the whole text
\* must be consumed.
RECURSIVE ParseItems(_, _, _, _, _)
ParseItems(fmt, i, s, pos, acc) ==
    IF i > Len(fmt)
    THEN (IF pos = Len(s) + 1 THEN [ok |-> TRUE, pos |-> pos, acc |-> acc]
          ELSE ParseFailed)
    ELSE IF fmt[i] \in Components
    THEN LET r == ParseComponent(fmt[i], s, pos, acc) IN
         IF r.ok THEN ParseItems(fmt, i + 1, s, r.pos, r.acc) ELSE ParseFailed
    ELSE IF pos <= Len(s) /\ s[pos] = fmt[i]
    THEN ParseItems(fmt, i + 1, s, pos + 1, acc)
    ELSE ParseFailed

Parse(s, fmt) == ParseItems(fmt, 1, s, 1, NothingParsed)

\* Parsed fields to values.  second and subsecond default to 0.
HasDate(p) ==
    /\ p.year >= 0
    /\ p.month \in 1..12
    /\ p.day >= 1
    /\ p.day <= DaysInMonth(p.year, p.month)

HasTime(p) ==
    /\ p.hour \in 0..23
    /\ p.minute \in 0..59
    /\ p.second <= 59

HasOffset(p) ==
    /\ p.offset_sign # 0
    /\ p.offset_hour \in 0..23
    /\ p.offset_minute <= 59

DateOf(p) == MkDate(p.year, p.month, p.day)

TimeOf(p) ==
    MkTime(p.hour, p.minute,
           IF p.second < 0 THEN 0 ELSE p.second,
           IF p.subsecond < 0 THEN 0 ELSE p.subsecond)

Parsed(v) == [ok |-> TRUE, val |-> v]

NotParsed == [ok |-> FALSE, val |-> NoValue]

\* Date::parse(s, fmt)
DateParse(s, fmt) ==
    LET r == Parse(s, fmt) IN
    IF r.ok /\ HasDate(r.acc) THEN Parsed(DateOf(r.acc)) ELSE NotParsed

\* Time::parse(s, fmt)
TimeParse(s, fmt) ==
    LET r == Parse(s, fmt) IN
    IF r.ok /\ HasTime(r.acc) THEN Parsed(TimeOf(r.acc)) ELSE NotParsed

\* PrimitiveDateTime::parse(s, fmt)
PrimitiveDateTimeParse(s, fmt) ==
    LET r == Parse(s, fmt) IN
    IF r.ok /\ HasDate(r.acc) /\ HasTime(r.acc)
    THEN Parsed(MkPrimitiveDateTime(DateOf(r.acc), TimeOf(r.acc)))
    ELSE NotParsed

\* OffsetDateTime::parse(s, fmt)
OffsetDateTimeParse(s, fmt) ==
    LET r == Parse(s, fmt) IN
    IF r.ok /\ HasDate(r.acc) /\ HasTime(r.acc) /\ HasOffset(r.acc)
    THEN Parsed(MkOffsetDateTime(
                    MkPrimitiveDateTime(DateOf(r.acc), TimeOf(r.acc)),
                    r.acc.offset_sign * r.acc.offset_hour,
                    r.acc.offset_sign
                        * (IF r.acc.offset_minute < 0 THEN 0 ELSE r.acc.offset_minute)))
    ELSE NotParsed

-----------------------------------------------------------------------------
(* The codec: to_sql and column_result of the four kinds *)

\* Some('T') == s.chars().nth(10)
HasT(s) == Len(s) >= 11 /\ s[11] = "T"

\* Some('Z') == s.chars().last()
HasZ(s) == Len(s) >= 1 /\ s[Len(s)] = "Z"

\* A decode result: the pattern selected (NoFormat if none) and the value.
UnknownFormat == [status |-> "unknown_format", val |-> NoValue, fmt |-> NoFormat]

Outcome(r, fmt) ==
    [status |-> IF r.ok THEN "ok" ELSE "parse_error", val |-> r.val, fmt |-> fmt]

\* to_sql writing the sub-seconds too
ToSqlOffsetDateTime_Subseconds(v) == Format(v, OFFSET_DATE_TIME_FORMAT_SUBSECONDS)

\* impl ToSql for OffsetDateTime
ToSqlOffsetDateTime(v) == Format(v, OFFSET_DATE_TIME_FORMAT)

\* The table without its (24, true, false) arm
SelectOffsetDateTimeFormat_No24T(len, has_t, has_z) ==
    CASE len = 29 /\ ~has_t /\ ~has_z -> OFFSET_DATE_TIME_FORMAT_SUBSECONDS
      [] len = 29 /\ has_t /\ ~has_z -> OFFSET_DATE_TIME_FORMAT_T_SUBSECONDS
      [] len = 26 /\ ~has_t /\ ~has_z -> LEGACY_DATE_TIME_FORMAT
      [] len = 25 /\ ~has_t /\ ~has_z -> OFFSET_DATE_TIME_FORMAT
      [] len = 25 /\ has_t /\ ~has_z -> OFFSET_DATE_TIME_FORMAT_T
      [] len = 24 /\ ~has_t /\ has_z -> PRIMITIVE_DATE_TIME_FORMAT_SUBSECONDS_Z
      [] len = 24 /\ has_t /\ has_z -> PRIMITIVE_DATE_TIME_FORMAT_T_SUBSECONDS_Z
      [] len = 23 /\ ~has_t /\ ~has_z -> PRIMITIVE_DATE_TIME_FORMAT_SUBSECONDS
      [] len = 23 /\ has_t /\ ~has_z -> PRIMITIVE_DATE_TIME_FORMAT_T_SUBSECONDS
      [] len = 20 /\ ~has_t /\ has_z -> PRIMITIVE_DATE_TIME_FORMAT_Z
      [] len = 20 /\ has_t /\ has_z -> PRIMITIVE_DATE_TIME_FORMAT_T_Z
      [] len = 19 /\ ~has_t /\ ~has_z -> PRIMITIVE_DATE_TIME_FORMAT
      [] len = 19 /\ has_t /\ ~has_z -> PRIMITIVE_DATE_TIME_FORMAT_T
      [] OTHER -> NoFormat

\* The table without its (20, true, true) arm
SelectOffsetDateTimeFormat_No20TZ(len, has_t, has_z) ==
    CASE len = 29 /\ ~has_t /\ ~has_z -> OFFSET_DATE_TIME_FORMAT_SUBSECONDS
      [] len = 29 /\ has_t /\ ~has_z -> OFFSET_DATE_TIME_FORMAT_T_SUBSECONDS
      [] len = 26 /\ ~has_t /\ ~has_z -> LEGACY_DATE_TIME_FORMAT
      [] len = 25 /\ ~has_t /\ ~has_z -> OFFSET_DATE_TIME_FORMAT
      [] len = 25 /\ has_t /\ ~has_z -> OFFSET_DATE_TIME_FORMAT_T
      [] len = 24 /\ ~has_t /\ has_z -> PRIMITIVE_DATE_TIME_FORMAT_SUBSECONDS_Z
      [] len = 24 /\ has_t /\ has_z -> PRIMITIVE_DATE_TIME_FORMAT_T_SUBSECONDS_Z
      [] len = 24 /\ has_t /\ ~has_z -> PRIMITIVE_DATE_TIME_FORMAT_T_SUBSECONDS
      [] len = 23 /\ ~has_t /\ ~has_z -> PRIMITIVE_DATE_TIME_FORMAT_SUBSECONDS
      [] len = 23 /\ has_t /\ ~has_z -> PRIMITIVE_DATE_TIME_FORMAT_T_SUBSECONDS
      [] len = 20 /\ ~has_t /\ has_z -> PRIMITIVE_DATE_TIME_FORMAT_Z
      [] len = 19 /\ ~has_t /\ ~has_z -> PRIMITIVE_DATE_TIME_FORMAT
      [] len = 19 /\ has_t /\ ~has_z -> PRIMITIVE_DATE_TIME_FORMAT_T
      [] OTHER -> NoFormat

\* The (29, true, false) arm given the space-separated pattern
SelectOffsetDateTimeFormat_29TAsSpace(len, has_t, has_z) ==
    CASE len = 29 /\ ~has_t /\ ~has_z -> OFFSET_DATE_TIME_FORMAT_SUBSECONDS
      [] len = 29 /\ has_t /\ ~has_z -> OFFSET_DATE_TIME_FORMAT_SUBSECONDS
      [] len = 26 /\ ~has_t /\ ~has_z -> LEGACY_DATE_TIME_FORMAT
      [] len = 25 /\ ~has_t /\ ~has_z -> OFFSET_DATE_TIME_FORMAT
      [] len = 25 /\ has_t /\ ~has_z -> OFFSET_DATE_TIME_FORMAT_T
      [] len = 24 /\ ~has_t /\ has_z -> PRIMITIVE_DATE_TIME_FORMAT_SUBSECONDS_Z
      [] len = 24 /\ has_t /\ has_z -> PRIMITIVE_DATE_TIME_FORMAT_T_SUBSECONDS_Z
      [] len = 24 /\ has_t /\ ~has_z -> PRIMITIVE_DATE_TIME_FORMAT_T_SUBSECONDS
      [] len = 23 /\ ~has_t /\ ~has_z -> PRIMITIVE_DATE_TIME_FORMAT_SUBSECONDS
      [] len = 23 /\ has_t /\ ~has_z -> PRIMITIVE_DATE_TIME_FORMAT_T_SUBSECONDS
      [] len = 20 /\ ~has_t /\ has_z -> PRIMITIVE_DATE_TIME_FORMAT_Z
      [] len = 20 /\ has_t /\ has_z -> PRIMITIVE_DATE_TIME_FORMAT_T_Z
      [] len = 19 /\ ~has_t /\ ~has_z -> PRIMITIVE_DATE_TIME_FORMAT
      [] len = 19 /\ has_t /\ ~has_z -> PRIMITIVE_DATE_TIME_FORMAT_T
      [] OTHER -> NoFormat

\* The match on (s.len(), has_t, has_z) of OffsetDateTime's column_result.
SelectOffsetDateTimeFormat(len, has_t, has_z) ==
    CASE len = 29 /\ ~has_t /\ ~has_z -> OFFSET_DATE_TIME_FORMAT_SUBSECONDS
      [] len = 29 /\ has_t /\ ~has_z -> OFFSET_DATE_TIME_FORMAT_T_SUBSECONDS
      [] len = 26 /\ ~has_t /\ ~has_z -> LEGACY_DATE_TIME_FORMAT
      [] len = 25 /\ ~has_t /\ ~has_z -> OFFSET_DATE_TIME_FORMAT
      [] len = 25 /\ has_t /\ ~has_z -> OFFSET_DATE_TIME_FORMAT_T
      [] len = 24 /\ ~has_t /\ has_z -> PRIMITIVE_DATE_TIME_FORMAT_SUBSECONDS_Z
      [] len = 24 /\ has_t /\ has_z -> PRIMITIVE_DATE_TIME_FORMAT_T_SUBSECONDS_Z
      [] len = 24 /\ has_t /\ ~has_z -> PRIMITIVE_DATE_TIME_FORMAT_T_SUBSECONDS
      [] len = 23 /\ ~has_t /\ ~has_z -> PRIMITIVE_DATE_TIME_FORMAT_SUBSECONDS
      [] len = 23 /\ has_t /\ ~has_z -> PRIMITIVE_DATE_TIME_FORMAT_T_SUBSECONDS
      [] len = 20 /\ ~has_t /\ has_z -> PRIMITIVE_DATE_TIME_FORMAT_Z
      [] len = 20 /\ has_t /\ has_z -> PRIMITIVE_DATE_TIME_FORMAT_T_Z
      [] len = 19 /\ ~has_t /\ ~has_z -> PRIMITIVE_DATE_TIME_FORMAT
      [] len = 19 /\ has_t /\ ~has_z -> PRIMITIVE_DATE_TIME_FORMAT_T
      [] OTHER -> NoFormat

\* The parse step of OffsetDateTime's column_result, once a format is selected.
ParseOffsetDateTime(s, fmt) ==
    LET is_primitive == Len(s) < 25 IN
    IF is_primitive
    THEN LET p == PrimitiveDateTimeParse(s, fmt) IN
         IF p.ok THEN Parsed(AssumeUtc(p.val)) ELSE NotParsed
    ELSE OffsetDateTimeParse(s, fmt)

\* impl FromSql for OffsetDateTime
FromSqlOffsetDateTime(s) ==
    LET fmt == SelectOffsetDateTimeFormat(Len(s), HasT(s), HasZ(s)) IN
    IF fmt = NoFormat THEN UnknownFormat
    ELSE Outcome(ParseOffsetDateTime(s, fmt), fmt)

\* impl ToSql for Date
ToSqlDate(v) == Format(v, DATE_FORMAT)

\* impl FromSql for Date
FromSqlDate(s) == Outcome(DateParse(s, DATE_FORMAT), DATE_FORMAT)

\* impl ToSql for Time
ToSqlTime(v) == Format(v, TIME_FORMAT_SECONDS_SUBSECONDS)

\* The sub-second arm without length 10
SelectTimeFormat_No10(len) ==
    CASE len = 5 -> TIME_FORMAT
      [] len = 8 -> TIME_FORMAT_SECONDS
      [] len \in {11, 12} -> TIME_FORMAT_SECONDS_SUBSECONDS
      [] OTHER -> NoFormat

\* The match on s.len() of Time's column_result.
SelectTimeFormat(len) ==
    CASE len = 5 -> TIME_FORMAT
      [] len = 8 -> TIME_FORMAT_SECONDS
      [] len \in {10, 11, 12} -> TIME_FORMAT_SECONDS_SUBSECONDS
      [] OTHER -> NoFormat

\* impl FromSql for Time
FromSqlTime(s) ==
    LET fmt == SelectTimeFormat(Len(s)) IN
    IF fmt = NoFormat THEN UnknownFormat
    ELSE Outcome(TimeParse(s, fmt), fmt)

\* impl ToSql for PrimitiveDateTime
ToSqlPrimitiveDateTime(v) == Format(v, PRIMITIVE_DATE_TIME_FORMAT)

\* The (20, false, true) arm given the 'T'-separated pattern
SelectPrimitiveDateTimeFormat_20ZAsT(len, has_t, has_z) ==
    CASE len = 20 /\ has_t /\ has_z -> PRIMITIVE_DATE_TIME_FORMAT_T_Z
      [] len = 19 /\ has_t /\ ~has_z -> PRIMITIVE_DATE_TIME_FORMAT_T
      [] len = 20 /\ ~has_t /\ has_z -> PRIMITIVE_DATE_TIME_FORMAT_T_Z
      [] len = 19 /\ ~has_t /\ ~has_z -> PRIMITIVE_DATE_TIME_FORMAT
      [] len = 24 /\ has_t /\ has_z -> PRIMITIVE_DATE_TIME_FORMAT_T_SUBSECONDS_Z
      [] len = 23 /\ has_t /\ ~has_z -> PRIMITIVE_DATE_TIME_FORMAT_T_SUBSECONDS
      [] len = 24 /\ ~has_t /\ has_z -> PRIMITIVE_DATE_TIME_FORMAT_SUBSECONDS_Z
      [] len = 23 /\ ~has_t /\ ~has_z -> PRIMITIVE_DATE_TIME_FORMAT_SUBSECONDS
      [] OTHER -> NoFormat

\* The match on (s.len(), has_t, has_z) of PrimitiveDateTime's column_result.
SelectPrimitiveDateTimeFormat(len, has_t, has_z) ==
    CASE len = 20 /\ has_t /\ has_z -> PRIMITIVE_DATE_TIME_FORMAT_T_Z
      [] len = 19 /\ has_t /\ ~has_z -> PRIMITIVE_DATE_TIME_FORMAT_T
      [] len = 20 /\ ~has_t /\ has_z -> PRIMITIVE_DATE_TIME_FORMAT_Z
      [] len = 19 /\ ~has_t /\ ~has_z -> PRIMITIVE_DATE_TIME_FORMAT
      [] len = 24 /\ has_t /\ has_z -> PRIMITIVE_DATE_TIME_FORMAT_T_SUBSECONDS_Z
      [] len = 23 /\ has_t /\ ~has_z -> PRIMITIVE_DATE_TIME_FORMAT_T_SUBSECONDS
      [] len = 24 /\ ~has_t /\ has_z -> PRIMITIVE_DATE_TIME_FORMAT_SUBSECONDS_Z
      [] len = 23 /\ ~has_t /\ ~has_z -> PRIMITIVE_DATE_TIME_FORMAT_SUBSECONDS
      [] OTHER -> NoFormat

\* impl FromSql for PrimitiveDateTime
FromSqlPrimitiveDateTime(s) ==
    LET fmt == SelectPrimitiveDateTimeFormat(Len(s), HasT(s), HasZ(s)) IN
    IF fmt = NoFormat THEN UnknownFormat
    ELSE Outcome(PrimitiveDateTimeParse(s, fmt), fmt)

-----------------------------------------------------------------------------
(* Inputs *)

\* Sub-second digits written in the texts a column may already hold.
MaxFracDigits == 9

FracDigits == <<"1", "2", "0", "4", "5", "6", "7", "8", "9">>

FracText(n) == [i \in 1..n |-> FracDigits[((i - 1) % 9) + 1]]

\* 2013-10-07, and the 30th of February
DateTexts ==
    {<<"2", "0", "1", "3", "-", "1", "0", "-", "0", "7">>,
     <<"2", "0", "2", "4", "-", "0", "2", "-", "3", "0">>}

\* 04:23:19, 23:59:59
ClockTexts ==
    {<<"0", "4", ":", "2", "3", ":", "1", "9">>,
     <<"2", "3", ":", "5", "9", ":", "5", "9">>}

\* nothing, Z, -04:00, +05:30, and the offset after a space
ZoneTexts ==
    {<<>>, <<"Z">>,
     <<"-", "0", "4", ":", "0", "0">>,
     <<"+", "0", "5", ":", "3", "0">>,
     <<" ", "-", "0", "4", ":", "0", "0">>}

\* HH:MM:SS followed by the sub-second digits, after a '.' or (legacy) a ':'
ClockFracTexts ==
    {c \o <<i>> \o FracText(MaxFracDigits) : c \in ClockTexts, i \in {".", ":"}}

TimestampTexts ==
    {d \o <<sep>> \o c : d \in DateTexts, sep \in {" ", "T"}, c \in ClockFracTexts}

\* Every text cut anywhere, which gives the shorter well-formed forms and the
\* malformed ones, followed or not by a zone marker.
Cuts(texts) == UNION {{Prefix(s, n) : n \in 0..Len(s)} : s \in texts}

Texts ==
    {p \o z : p \in Cuts(TimestampTexts), z \in ZoneTexts} \cup Cuts(ClockFracTexts)

Dates == {MkDate(1970, 1, 1), MkDate(2013, 10, 7), MkDate(2024, 2, 29)}

Nanoseconds == {0, 1000, 120000000, 999999999}

Times ==
    {MkTime(c[1], c[2], c[3], n) :
        c \in {<<2, 46, 40>>, <<8, 23, 19>>, <<23, 59, 59>>}, n \in Nanoseconds}

PrimitiveDateTimes == {MkPrimitiveDateTime(d, t) : d \in Dates, t \in Times}

Offsets == {<<0, 0>>, <<-4, 0>>, <<5, 30>>, <<-3, -30>>}

OffsetDateTimes ==
    {MkOffsetDateTime(p, o[1], o[2]) : p \in PrimitiveDateTimes, o \in Offsets}

-----------------------------------------------------------------------------
(* The column: a text cell written by to_sql, or as plain text, and read back
   by column_result *)

NoParam == [kind |-> "none", val |-> NoValue, origin |-> "none"]

NoResult == [kind |-> "none", status |-> "none", val |-> NoValue, fmt |-> NoFormat]

Init ==
    /\ cell = <<>>
    /\ param = NoParam
    /\ res = NoResult

\* The cell holds a text some other writer put there.
StoreText(s) ==
    /\ cell' = s
    /\ param' = NoParam
    /\ res' = NoResult

Store(kind, v, origin, text) ==
    /\ cell' = text
    /\ param' = [kind |-> kind, val |-> v, origin |-> origin]
    /\ res' = NoResult

\* A value read from the column and written back.
Decoded(kind) == res.kind = kind /\ res.status = "ok"

StoreOffsetDateTime(v, origin) ==
    Store("OffsetDateTime", v, origin, ToSqlOffsetDateTime(v))

StorePrimitiveDateTime(v, origin) ==
    Store("PrimitiveDateTime", v, origin, ToSqlPrimitiveDateTime(v))

StoreDate(v, origin) == Store("Date", v, origin, ToSqlDate(v))

StoreTime(v, origin) == Store("Time", v, origin, ToSqlTime(v))

Load(kind, r) ==
    /\ res' = [kind |-> kind, status |-> r.status, val |-> r.val, fmt |-> r.fmt]
    /\ UNCHANGED <<cell, param>>

LoadOffsetDateTime == Load("OffsetDateTime", FromSqlOffsetDateTime(cell))

LoadPrimitiveDateTime == Load("PrimitiveDateTime", FromSqlPrimitiveDateTime(cell))

LoadDate == Load("Date", FromSqlDate(cell))

LoadTime == Load("Time", FromSqlTime(cell))

Next ==
    \/ \E s \in Texts : StoreText(s)
    \/ \E v \in OffsetDateTimes : StoreOffsetDateTime(v, "caller")
    \/ Decoded("OffsetDateTime") /\ StoreOffsetDateTime(res.val, "decoded")
    \/ \E v \in PrimitiveDateTimes : StorePrimitiveDateTime(v, "caller")
    \/ Decoded("PrimitiveDateTime") /\ StorePrimitiveDateTime(res.val, "decoded")
    \/ \E v \in Dates : StoreDate(v, "caller")
    \/ Decoded("Date") /\ StoreDate(res.val, "decoded")
    \/ \E v \in Times : StoreTime(v, "caller")
    \/ Decoded("Time") /\ StoreTime(res.val, "decoded")
    \/ LoadOffsetDateTime
    \/ LoadPrimitiveDateTime
    \/ LoadDate
    \/ LoadTime

Spec == Init /\ [][Next]_vars

-----------------------------------------------------------------------------
(* Reading a text directly, for stating what a decode must produce *)

Num2(s, i) == DigitVal(s[i]) * 10 + DigitVal(s[i + 1])

Num4(s, i) == Num2(s, i) * 100 + Num2(s, i + 2)

AllDigits(s, from, to) == \A i \in from..to : IsDigit(s[i])

\* YYYY-MM-DD at the start of s, a date of the calendar
IsDateText(s) ==
    /\ Len(s) >= 10
    /\ AllDigits(s, 1, 4) /\ s[5] = "-" /\ AllDigits(s, 6, 7)
    /\ s[8] = "-" /\ AllDigits(s, 9, 10)
    /\ Num2(s, 6) \in 1..12
    /\ Num2(s, 9) \in 1..DaysInMonth(Num4(s, 1), Num2(s, 6))

\* HH:MM at i
IsHourMinuteText(s, i) ==
    /\ Len(s) >= i + 4
    /\ AllDigits(s, i, i + 1) /\ s[i + 2] = ":" /\ AllDigits(s, i + 3, i + 4)
    /\ Num2(s, i) <= 23 /\ Num2(s, i + 3) <= 59

\* HH:MM:SS at i
IsClockText(s, i) ==
    /\ IsHourMinuteText(s, i)
    /\ Len(s) >= i + 7
    /\ s[i + 5] = ":" /\ AllDigits(s, i + 6, i + 7)
    /\ Num2(s, i + 6) <= 59

\* [+-]HH:MM at i, ending the text
IsOffsetText(s, i) ==
    /\ Len(s) = i + 5
    /\ s[i] \in {"+", "-"}
    /\ AllDigits(s, i + 1, i + 2) /\ s[i + 3] = ":" /\ AllDigits(s, i + 4, i + 5)
    /\ Num2(s, i + 1) <= 23 /\ Num2(s, i + 4) <= 59

\* The date, a space or 'T', the time, and with n = 23 a '.' and three digits.
IsStem(s, n) ==
    /\ n \in {19, 23}
    /\ Len(s) >= n
    /\ IsDateText(s)
    /\ s[11] \in {" ", "T"}
    /\ IsClockText(s, 12)
    /\ n = 23 => (s[20] = "." /\ AllDigits(s, 21, 23))

NoZone(s, n) == Len(s) = n

ZuluZone(s, n) == Len(s) = n + 1 /\ s[n + 1] = "Z"

OffsetZone(s, n) == IsOffsetText(s, n + 1)

\* k <= 3 digits from i on, as the nanoseconds of the fraction they write
FracNanos(s, i, k) ==
    DigitVal(s[i]) * 100000000
    + (IF k >= 2 THEN DigitVal(s[i + 1]) * 10000000 ELSE 0)
    + (IF k >= 3 THEN DigitVal(s[i + 2]) * 1000000 ELSE 0)

TextDate(s) == MkDate(Num4(s, 1), Num2(s, 6), Num2(s, 9))

TextClock(s, i, nanos) == MkTime(Num2(s, i), Num2(s, i + 3), Num2(s, i + 6), nanos)

\* The wall-clock date and time a stem writes.
StemValue(s, n) ==
    MkPrimitiveDateTime(TextDate(s),
        TextClock(s, 12, IF n = 23 THEN FracNanos(s, 21, 3) ELSE 0))

OffsetSign(s, i) == IF s[i] = "-" THEN -1 ELSE 1

\* The value a stem followed by [+-]HH:MM writes.
StemOffsetValue(s, n) ==
    MkOffsetDateTime(StemValue(s, n),
                     OffsetSign(s, n + 1) * Num2(s, n + 2),
                     OffsetSign(s, n + 1) * Num2(s, n + 5))

Triple(s) == <<Len(s), HasT(s), HasZ(s)>>

Equal(kind, a, b) ==
    IF kind = "OffsetDateTime" THEN EqOffsetDateTime(a, b) ELSE a = b

ZonelessKinds == {"PrimitiveDateTime", "Date", "Time"}

-----------------------------------------------------------------------------
(* The claims *)

\* C1: a timezone-aware timestamp the caller stores, whatever its sub-second
\* part and offset, reads back as an equal value.
C1_OffsetDateTimeRoundTrip ==
    (param.kind = "OffsetDateTime" /\ param.origin = "caller"
        /\ res.kind = "OffsetDateTime")
    => (res.status = "ok" /\ EqOffsetDateTime(res.val, param.val))

\* C2: a naive timestamp, a date or a time of day the caller stores,
\* whatever its sub-second part, reads back as the same value.
C2_ZonelessRoundTrip ==
    (param.kind \in ZonelessKinds /\ param.origin = "caller"
        /\ res.kind = param.kind)
    => (res.status = "ok" /\ res.val = param.val)

\* C3: a value that was read from the column, stored again and read again
\* is equal to the value first read.
C3_DecodeEncodeDecode ==
    (param.origin = "decoded" /\ res.kind = param.kind)
    => (res.status = "ok" /\ Equal(param.kind, res.val, param.val))

\* The (length, 'T' at index 10, trailing 'Z') combinations of the claim's
\* list, an entry that names no 'Z' standing for both.
C4_ListedTable ==
    {<<29, FALSE, FALSE>>, <<29, FALSE, TRUE>>, <<29, TRUE, FALSE>>, <<29, TRUE, TRUE>>,
     <<26, FALSE, FALSE>>,
     <<25, FALSE, FALSE>>, <<25, FALSE, TRUE>>, <<25, TRUE, FALSE>>, <<25, TRUE, TRUE>>,
     <<24, FALSE, TRUE>>, <<24, TRUE, TRUE>>, <<24, TRUE, FALSE>>,
     <<23, FALSE, FALSE>>, <<23, FALSE, TRUE>>, <<23, TRUE, FALSE>>, <<23, TRUE, TRUE>>,
     <<20, FALSE, TRUE>>, <<20, TRUE, TRUE>>,
     <<19, FALSE, FALSE>>, <<19, FALSE, TRUE>>, <<19, TRUE, FALSE>>, <<19, TRUE, TRUE>>}

\* The same list with every entry that names no 'Z' read as "no trailing Z".
C4_NoZTable ==
    {<<29, FALSE, FALSE>>, <<29, TRUE, FALSE>>,
     <<26, FALSE, FALSE>>,
     <<25, FALSE, FALSE>>, <<25, TRUE, FALSE>>,
     <<24, FALSE, TRUE>>, <<24, TRUE, TRUE>>, <<24, TRUE, FALSE>>,
     <<23, FALSE, FALSE>>, <<23, TRUE, FALSE>>,
     <<20, FALSE, TRUE>>, <<20, TRUE, TRUE>>,
     <<19, FALSE, FALSE>>, <<19, TRUE, FALSE>>}

C4_SelectsExactly(table) ==
    res.kind = "OffsetDateTime"
    => /\ (res.fmt # NoFormat) <=> (Triple(cell) \in table)
       /\ Triple(cell) \notin table
            => (res.status = "unknown_format" /\ res.val = NoValue)

\* C4 as stated: the timezone-aware decoder selects a pattern exactly for the
\* listed combinations, and every other one is an "unknown date format" error
\* with no value.
C4_SelectsListed == C4_SelectsExactly(C4_ListedTable)

\* C4 amended: the timezone-aware decoder selects a pattern exactly for the
\* listed combinations with no trailing 'Z' wherever the list names none, and
\* every other one is an "unknown date format" error with no value.
C4_SelectsListedNoZ == C4_SelectsExactly(C4_NoZTable)

C4_Witness ==
    /\ res.kind = "OffsetDateTime"
    /\ Triple(cell) = <<24, TRUE, FALSE>>
    /\ res.fmt = PRIMITIVE_DATE_TIME_FORMAT_T_SUBSECONDS
    /\ res.status = "ok"

\* The 26-character form the decoder documents for its legacy arm:
\* YYYY-MM-DD HH:MM:SS [+-]HH:MM
IsLegacy26Text(s) ==
    /\ IsStem(s, 19)
    /\ Len(s) = 26
    /\ s[11] = " "
    /\ s[20] = " "
    /\ IsOffsetText(s, 21)

\* C5: a well-formed 26-character legacy text is classified to the legacy
\* pattern and decodes to the value with the written offset applied.
C5_LegacyDecodes ==
    (res.kind = "OffsetDateTime" /\ IsLegacy26Text(cell))
    => /\ res.fmt = LEGACY_DATE_TIME_FORMAT
       /\ res.status = "ok"
       /\ Instant(res.val)
            = Instant(MkOffsetDateTime(StemValue(cell, 19),
                                       OffsetSign(cell, 21) * Num2(cell, 22),
                                       OffsetSign(cell, 21) * Num2(cell, 25)))

\* What the code does instead: no text of 26 characters without 'T' and 'Z'
\* is ever decoded, the legacy pattern needing 28 characters or more.
Legacy26NeverDecodes ==
    (res.kind = "OffsetDateTime" /\ Triple(cell) = <<26, FALSE, FALSE>>)
    => (res.fmt = LEGACY_DATE_TIME_FORMAT /\ res.status = "parse_error")

\* C6: for the timezone-aware decoder, a well-formed date and time (with or
\* without three sub-second digits, after a space or a 'T') with no zone
\* marker or with a trailing 'Z' is that date and time in UTC, and with an
\* offset [+-]HH:MM is the instant of the wall clock minus the offset.
C6_InstantDecoded ==
    res.kind = "OffsetDateTime"
    => \A n \in {19, 23} :
         IsStem(cell, n)
         => /\ (NoZone(cell, n) \/ ZuluZone(cell, n))
                 => /\ res.status = "ok"
                    /\ res.val.offset_hours = 0 /\ res.val.offset_minutes = 0
                    /\ Instant(res.val) = Instant(AssumeUtc(StemValue(cell, n)))
            /\ OffsetZone(cell, n)
                 => /\ res.status = "ok"
                    /\ Instant(res.val) = Instant(StemOffsetValue(cell, n))

\* 2013-10-07T04:23:19.120-04:00 is 2013-10-07 08:23:19.120 UTC
C6_Witness ==
    /\ res.kind = "OffsetDateTime"
    /\ IsStem(cell, 23) /\ OffsetZone(cell, 23)
    /\ cell[11] = "T" /\ cell[24] = "-"
    /\ res.status = "ok"
    /\ Instant(res.val)
         = Instant(AssumeUtc(MkPrimitiveDateTime(MkDate(2013, 10, 7),
                                                 MkTime(8, 23, 19, 120000000))))

\* C7: the time-of-day decoder goes by length alone: HH:MM (5) has second and
\* fraction 0, HH:MM:SS (8) has fraction 0, HH:MM:SS. and 1 to 3 digits (10,
\* 11, 12) has that fraction, and any other length is an error with no value.
C7_TimeByLength ==
    res.kind = "Time"
    => LET n == Len(cell) IN
       /\ n \notin {5, 8, 10, 11, 12}
            => (res.status = "unknown_format" /\ res.val = NoValue)
       /\ (n = 5 /\ IsHourMinuteText(cell, 1))
            => /\ res.status = "ok"
               /\ res.val = MkTime(Num2(cell, 1), Num2(cell, 4), 0, 0)
       /\ (n = 8 /\ IsClockText(cell, 1))
            => (res.status = "ok" /\ res.val = TextClock(cell, 1, 0))
       /\ (n \in {10, 11, 12} /\ IsClockText(cell, 1) /\ cell[9] = "."
             /\ AllDigits(cell, 10, n))
            => /\ res.status = "ok"
               /\ res.val = TextClock(cell, 1, FracNanos(cell, 10, n - 9))

C7_Witness ==
    /\ res.kind = "Time"
    /\ Len(cell) = 11
    /\ res.status = "ok"
    /\ res.val = MkTime(4, 23, 19, 120000000)

\* The eight combinations of the naive decoder: lengths 19 and 23 without
\* 'Z', 20 and 24 with it, after a space or a 'T'.
C8_NaiveTable ==
    {<<19, FALSE, FALSE>>, <<19, TRUE, FALSE>>, <<20, FALSE, TRUE>>, <<20, TRUE, TRUE>>,
     <<23, FALSE, FALSE>>, <<23, TRUE, FALSE>>, <<24, FALSE, TRUE>>, <<24, TRUE, TRUE>>}

\* C8: the naive decoder accepts a well-formed date and time after a space or
\* a 'T', with or without a trailing 'Z', and the value is the one the date
\* and time digits write, whichever variant; outside the eight combinations
\* it fails.
C8_NaiveIgnoresVariant ==
    res.kind = "PrimitiveDateTime"
    => /\ Triple(cell) \notin C8_NaiveTable
            => (res.status = "unknown_format" /\ res.val = NoValue)
       /\ \A n \in {19, 23} :
            (IsStem(cell, n) /\ (NoZone(cell, n) \/ ZuluZone(cell, n)))
            => (res.status = "ok" /\ res.val = StemValue(cell, n))

C8_Witness ==
    /\ res.kind = "PrimitiveDateTime"
    /\ Triple(cell) = <<24, TRUE, TRUE>>
    /\ res.status = "ok"
    /\ res.val = MkPrimitiveDateTime(MkDate(2013, 10, 7), MkTime(4, 23, 19, 120000000))

C10_AwareExtendsNaive ==
    res.kind = "OffsetDateTime"
    => LET naive == FromSqlPrimitiveDateTime(cell) IN
       /\ naive.status = "ok"
            => (res.status = "ok" /\ res.val = AssumeUtc(naive.val))
       /\ (res.status = "ok" /\ Len(cell) < 25)
            => (res.val.offset_hours = 0 /\ res.val.offset_minutes = 0)

C10_Witness ==
    /\ res.kind = "OffsetDateTime"
    /\ Triple(cell) = <<20, TRUE, TRUE>>
    /\ FromSqlPrimitiveDateTime(cell).status = "ok"
    /\ res.status = "ok"
    /\ res.val.offset_hours = 0

=============================================================================
